---- MODULE Spec2Model ----
(***************************************************************************)
(* A model of aioweb: the request-argument binder (RequestHandler) and the *)
(* response coercer (response_factory) of async_web.py, and the scoped     *)
(* connection handling of select / execute in orm.py; the entity          *)
(* metaclass (ModelMetaClass) of orm.py; route registration (add_route,    *)
(* add_routes) of async_web.py; the two threads of pymonitor.py.           *)
(*                                                                         *)
(* Python values are tagged records [type |-> ..., ...]; strings are       *)
(* sequences of tokens, so that str.startswith is the prefix test and      *)
(* str.lower maps tokens; dicts are functions from keys to values.         *)
(***************************************************************************)
EXTENDS Integers, Sequences, FiniteSets, TLC

VARIABLES
    handler,    \* the registered RequestHandler (its cached signature facts)
    request,    \* the request being handled
    pc,         \* "idle" | "received" | "done"
    call,       \* what RequestHandler.__call__ did for this request
    resp,       \* what response_factory.response produced
    pool,       \* orm.__pool: whether it was created, and the connections in use
    conns,      \* per connection: whether a transaction is open on it
    ops,        \* per database operation (a select or execute call): its progress
    klass,      \* the latest class statement run under ModelMetaClass: its outcome
    router,     \* app.router: its resources in order, each with its routes
    reg,        \* the latest add_route call: its argument and its outcome
    process,    \* pymonitor's global `process`: a child, or 0 for None
    children,   \* per child process the monitor may start: its life so far
    thr,        \* per thread of pymonitor: where it is, and the Popen in its hand
    queue       \* the file-system events the observer has not dispatched yet

webvars == <<handler, request, pc, call, resp>>
dbvars == <<pool, conns, ops>>
ormvars == <<klass>>
routevars == <<router, reg>>
monvars == <<process, children, thr, queue>>
vars == <<handler, request, pc, call, resp, pool, conns, ops, klass, router, reg,
          process, children, thr, queue>>

\* what an action of one layer leaves alone
nonwebvars == <<dbvars, ormvars, routevars, monvars>>
nondbvars == <<webvars, ormvars, routevars, monvars>>
nonormvars == <<webvars, dbvars, routevars, monvars>>
nonroutevars == <<webvars, dbvars, ormvars, monvars>>
nonmonvars == <<webvars, dbvars, ormvars, routevars>>

\* ------------------------------------------------------------------ bounds

\* most attributes in the body of one class statement
MaxAttrs == 3

\* most routes registered with the application
MaxRoutes == 3

\* child processes the monitor may start in one run
MaxChildren == 3

\* file-system events that may wait for the observer thread
MaxQueue == 2

\* longest query string, counted in key=value pairs
MaxQs == 2

\* connections the pool may hand out at once (create_pool's maxsize)
MaxConns == 1

\* database operations that may be in flight together
MaxOps == 2

\* ------------------------------------------------------- python values

NoneVal == [type |-> "NoneType"]
StrV(s) == [type |-> "str", val |-> s]
IntV(n) == [type |-> "int", val |-> n]
BoolV(b) == [type |-> "bool", val |-> b]
BytesV(b) == [type |-> "bytes", val |-> b]
DictV(m) == [type |-> "dict", map |-> m]
TupleV(items) == [type |-> "tuple", items |-> items]
ListV(items) == [type |-> "list", items |-> items]
StreamV(r) == [type |-> "StreamResponse", resp |-> r]

\* isinstance(v, int): bool is a subclass of int
IsInt(v) == v.type \in {"int", "bool"}

\* the integer an int (or bool) compares as
IntOf(v) == IF v.type = "bool" THEN (IF v.val THEN 1 ELSE 0) ELSE v.val

\* str(v): a str is itself, anything else is rendered
Str(v) == IF v.type = "str" THEN v.val ELSE <<"str", ToString(v)>>

\* s.startswith(p) on token sequences
StartsWith(s, p) == Len(p) <= Len(s) /\ SubSeq(s, 1, Len(p)) = p

\* one token of str.lower()
LowerTok(t) ==
    CASE t = "Application/JSON" -> "application/json"
      [] OTHER -> t

\* s.lower()
Lower(s) == [i \in 1..Len(s) |-> LowerTok(s[i])]

\* d.get(k): the value, or None when the key is absent
DictGet(m, k) == IF k \in DOMAIN m THEN m[k] ELSE NoneVal

\* ------------------------------------------------------- responses

NoBody == [form |-> "none"]
BytesBody(b) == [form |-> "bytes", data |-> b]
\* s.encode('utf-8')
Utf8(s) == [form |-> "utf-8", text |-> s]

\* web.Response(...) and the HTTP exceptions used as return values
Response(status, ct, body) ==
    [status |-> status, content_type |-> ct, body |-> body, location |-> <<>>]

HTTPBadRequest(text) == Response(400, "text/plain", Utf8(text))

HTTPFound(location) ==
    [status |-> 302, content_type |-> "text/plain", body |-> Utf8(<<"302: Found">>),
     location |-> location]

\* json.dumps(r, ensure_ascii=False, default=...)
JsonDumps(m) == <<"json", ToString(m)>>

\* app['__templating__'].get_template(template).render(**r)
Render(template, m) == <<"render", ToString(template), ToString(m)>>

\* ------------------------------------------------ handler signatures

\* inspect.Parameter: a name, a kind, and whether a default is declared
Pos(name) == [name |-> name, kind |-> "POSITIONAL_OR_KEYWORD", default |-> FALSE]
KwOnly(name, default) == [name |-> name, kind |-> "KEYWORD_ONLY", default |-> default]
VarKw == [name |-> "kw", kind |-> "VAR_KEYWORD", default |-> FALSE]

\* inspect.signature(func).parameters of the controllers considered, in order
Funcs ==
    { <<>>,                                             \* index()
      <<Pos("request")>>,                               \* index(request)
      <<Pos("id"), Pos("request")>>,                    \* blog(id, request)
      <<Pos("request"), Pos("id")>>,                    \* blog(request, id)
      <<KwOnly("id", FALSE)>>,                          \* f(*, id)
      <<KwOnly("id", FALSE), KwOnly("name", FALSE)>>,   \* f(*, id, name)
      <<KwOnly("name", FALSE), KwOnly("id", TRUE)>>,    \* f(*, name, id=1)
      <<KwOnly("name", TRUE)>>,                         \* f(*, name='')
      <<Pos("request"), KwOnly("id", FALSE)>>,          \* f(request, *, id)
      <<KwOnly("request", FALSE)>>,                     \* f(*, request)
      <<VarKw>>,                                        \* f(**kw)
      <<Pos("request"), VarKw>>,                        \* f(request, **kw)
      <<KwOnly("id", FALSE), VarKw>> }                  \* f(*, id, **kw)

\* the names of the parameters `params`, in order
NamesOf(params) == [i \in 1..Len(params) |-> params[i].name]

get_required_kwargs(params) ==
    NamesOf(SelectSeq(params, LAMBDA p : p.kind = "KEYWORD_ONLY" /\ ~p.default))

get_named_kwargs(params) ==
    NamesOf(SelectSeq(params, LAMBDA p : p.kind = "KEYWORD_ONLY"))

has_named_kwargs(params) ==
    \E i \in 1..Len(params) : params[i].kind = "KEYWORD_ONLY"

has_var_kwarg(params) ==
    \E i \in 1..Len(params) : params[i].kind = "VAR_KEYWORD"

\* has_request_arg raises ValueError: a parameter after 'request' that is
\* neither *args, keyword-only nor **kw
has_request_arg_raises_Never(params) == FALSE

has_request_arg_raises(params) ==
    \E i, j \in 1..Len(params) :
        /\ i < j
        /\ params[i].name = "request"
        /\ params[j].name # "request"
        /\ params[j].kind \notin {"VAR_POSITIONAL", "KEYWORD_ONLY", "VAR_KEYWORD"}

\* has_request_arg's return value (when it does not raise)
has_request_arg(params) ==
    \E i \in 1..Len(params) : params[i].name = "request"

\* RequestHandler.__init__
RequestHandler(func) ==
    [func |-> func,
     has_request_arg |-> has_request_arg(func),
     has_var_kwarg |-> has_var_kwarg(func),
     has_named_kwargs |-> has_named_kwargs(func),
     named_kwargs |-> get_named_kwargs(func),
     required_kwargs |-> get_required_kwargs(func)]

\* the handlers whose construction (add_route) succeeds
Handlers == { RequestHandler(f) : f \in { g \in Funcs : ~has_request_arg_raises(g) } }

\* the elements of a sequence
Range(s) == { s[i] : i \in 1..Len(s) }

\* -------------------------------------------------------------- requests

Keys == {"id", "name", "request"}
PathKeys == {"id", "request"}

\* dicts whose keys are in K, all with value v
MapsOver(K, v) == UNION { [D -> {v}] : D \in SUBSET K }

\* request.match_info: the matched path parameters
MatchInfos == MapsOver(PathKeys, "p")

\* request bodies: a JSON object, some other JSON value, or form fields
Bodies ==
    { [kind |-> "json-object", map |-> m] : m \in MapsOver(Keys, "b") }
    \cup { [kind |-> "json-array", map |-> <<>>] }
    \cup { [kind |-> "form", map |-> m] : m \in MapsOver(Keys, "b") }

NoBodySent == [kind |-> "form", map |-> <<>>]

\* request.query_string as its key=value pairs, in order
QsPairs == Keys \X {"q1", "q2"}
QueryStrings == UNION { [1..n -> QsPairs] : n \in 0..MaxQs }

\* request.content_type: <<>> when absent
ContentTypes ==
    { <<>>,
      <<"application/json">>,
      <<"Application/JSON">>,
      <<"application/json", "-patch+json">>,
      <<"application/x-www-form-urlencoded">>,
      <<"multipart/form-data">>,
      <<"text/plain">> }

GetRequests ==
    [method : {"GET"}, content_type : {<<>>},
     body : {NoBodySent}, query_string : QueryStrings, match_info : MatchInfos]

PostRequests ==
    [method : {"POST"}, content_type : ContentTypes,
     body : Bodies, query_string : {<<>>, <<<<"id", "q1">>>>}, match_info : MatchInfos]

Requests == GetRequests \cup PostRequests

\* no request is being handled
NoRequest ==
    [method |-> "", content_type |-> <<>>, body |-> NoBodySent,
     query_string |-> <<>>, match_info |-> <<>>]

\* the value stored under kw['request']
RequestObject == "<request>"

\* ---------------------------------------------- RequestHandler.__call__

\* the binder's working state: `out` is "go" while it runs, "return" once it
\* returned `r`, "raise" once an exception `exc` left it; kw is the local kw
\* (kwNone: kw is None), parsed the mapping as read from the body or query;
\* built: the merge ran; called: self._func(**kw) was evaluated; invoked: the
\* controller's body ran, behaving as `did`
Binder0 ==
    [out |-> "go", r |-> NoneVal, exc |-> "", kwNone |-> TRUE, kw |-> <<>>,
     parsed |-> <<>>, bodyRead |-> FALSE, queryRead |-> FALSE, built |-> FALSE,
     warned |-> FALSE, called |-> FALSE, invoked |-> FALSE, did |-> [does |-> "nothing"]]

Return(b, r) == [b EXCEPT !.out = "return", !.r = r]
Raise(b, exc) == [b EXCEPT !.out = "raise", !.exc = exc]
SetKw(b, kw) == [b EXCEPT !.kwNone = FALSE, !.kw = kw, !.parsed = kw]

\* NeedsArgs with the guard dropped: every request is parsed
NeedsArgs_Always(h) == TRUE

\* the condition under which the body or the query string is looked at
NeedsArgs(h) ==
    h.has_var_kwarg \/ h.has_named_kwargs \/ h.required_kwargs # <<>>

\* await request.json(): raises unless the body is JSON
RequestJson(b, req) ==
    LET read == [b EXCEPT !.bodyRead = TRUE]
    IN  CASE req.body.kind = "json-object" -> SetKw(read, req.body.map)
          [] req.body.kind = "json-array" ->
                Return(read, StreamV(HTTPBadRequest(<<"JSON body must be object.">>)))
          [] OTHER -> Raise(read, "JSONDecodeError")

\* await request.post(), then dict(**params): the form fields of the body
RequestPost(b, req) ==
    SetKw([b EXCEPT !.bodyRead = TRUE],
          IF req.body.kind = "form" THEN req.body.map ELSE <<>>)

\* UnsupportedContentType without the return: the binder goes on
UnsupportedContentType_Ignored(b, req) == b

\* the final else of the Content-Type ladder
UnsupportedContentType(b, req) ==
    Return(b, StreamV(HTTPBadRequest(<<"Unsupported Content-Type: ">> \o req.content_type)))

\* the POST branch
ParsePost(b, req) ==
    IF req.content_type = <<>>
    THEN Return(b, StreamV(HTTPBadRequest(<<"Missing Content-Type.">>)))
    ELSE LET ct == Lower(req.content_type)
         IN  IF StartsWith(ct, <<"application/json">>)
             THEN RequestJson(b, req)
             ELSE IF \/ StartsWith(ct, <<"application/x-www-form-urlencoded">>)
                     \/ StartsWith(ct, <<"multipart/form-data">>)
                  THEN RequestPost(b, req)
                  ELSE UnsupportedContentType(b, req)

\* the values given for key k in the query string, in order
QsValues(qs, k) ==
    LET sel == SelectSeq(qs, LAMBDA p : p[1] = k)
    IN  [i \in 1..Len(sel) |-> sel[i][2]]

\* parse.parse_qs(qs, True): each key with the list of its values
ParseQs(qs) == [k \in { qs[i][1] : i \in 1..Len(qs) } |-> QsValues(qs, k)]

\* the GET branch: the first value of each key of the query string
ParseGet(b, req) ==
    LET read == [b EXCEPT !.queryRead = TRUE]
        parsed == ParseQs(req.query_string)
    IN  IF req.query_string # <<>>
        THEN SetKw(read, [k \in DOMAIN parsed |-> parsed[k][1]])
        ELSE read

\* the parsing stage: Content-Type ladder on POST, query string on GET
ParseArgs(h, req) ==
    IF ~NeedsArgs(h) THEN Binder0
    ELSE CASE req.method = "POST" -> ParsePost(Binder0, req)
           [] req.method = "GET" -> ParseGet(Binder0, req)
           [] OTHER -> Binder0

\* FilterNamed without the filter
FilterNamed_KeepAll(h, kw) == kw

\* keep only the declared named parameters, unless there is a **kw
FilterNamed(h, kw) ==
    IF ~h.has_var_kwarg /\ h.named_kwargs # <<>>
    THEN [k \in Range(h.named_kwargs) \cap DOMAIN kw |-> kw[k]]
    ELSE kw

\* Overlay with the body/query value kept on a collision
Overlay_BodyWins(kw, match_info) ==
    [k \in DOMAIN kw \cup DOMAIN match_info |->
        IF k \in DOMAIN kw THEN kw[k] ELSE match_info[k]]

\* for k, v in request.match_info.items(): kw[k] = v
Overlay(kw, match_info) ==
    [k \in DOMAIN kw \cup DOMAIN match_info |->
        IF k \in DOMAIN match_info THEN match_info[k] ELSE kw[k]]

\* the merge stage
Merge(h, req, b) ==
    IF b.kwNone
    THEN [b EXCEPT !.kwNone = FALSE, !.kw = req.match_info, !.built = TRUE]
    ELSE LET kw == FilterNamed(h, b.kw)
         IN  [b EXCEPT !.kw = Overlay(kw, req.match_info), !.built = TRUE,
                       !.warned = (DOMAIN kw \cap DOMAIN req.match_info # {})]

\* kw['request'] = request
InjectRequest(h, b) ==
    IF h.has_request_arg
    THEN [b EXCEPT !.kw = [k \in DOMAIN b.kw \cup {"request"} |->
                              IF k = "request" THEN RequestObject ELSE b.kw[k]]]
    ELSE b

\* the required names absent from kw, as positions in required_kwargs
MissingAt(h, kw) ==
    { i \in 1..Len(h.required_kwargs) : h.required_kwargs[i] \notin DOMAIN kw }

\* CheckRequired reporting the last absent name instead of the first
CheckRequired_Last(h, b) ==
    LET missing == MissingAt(h, b.kw)
    IN  IF missing # {}
        THEN LET last == CHOOSE i \in missing : \A j \in missing : i >= j
             IN  Return(b, StreamV(HTTPBadRequest(
                     <<"Missing argument: ", h.required_kwargs[last]>>)))
        ELSE b

\* the loop over required_kwargs: returns at the first absent name
CheckRequired(h, b) ==
    LET missing == MissingAt(h, b.kw)
    IN  IF missing # {}
        THEN LET first == CHOOSE i \in missing : \A j \in missing : i <= j
             IN  Return(b, StreamV(HTTPBadRequest(
                     <<"Missing argument: ", h.required_kwargs[first]>>)))
        ELSE b

\* whether Python can bind the call self._func(**kw) to the signature
BindsTo(params, kw) ==
    /\ \A k \in DOMAIN kw :
          \/ \E i \in 1..Len(params) :
                /\ params[i].name = k
                /\ params[i].kind \in {"POSITIONAL_OR_KEYWORD", "KEYWORD_ONLY"}
          \/ has_var_kwarg(params)
    /\ \A i \in 1..Len(params) :
          (params[i].kind \in {"POSITIONAL_OR_KEYWORD", "KEYWORD_ONLY"} /\ ~params[i].default)
              => params[i].name \in DOMAIN kw

\* OnAPIError without the except clause: the error propagates
OnAPIError_Propagates(b, e) == Raise(b, "APIError")

\* except APIError as e: return dict(error=e.error, data=e.data, message=e.msg)
OnAPIError(b, e) ==
    Return(b, DictV([k \in {"error", "data", "message"} |->
                        CASE k = "error" -> StrV(e.error)
                          [] k = "data" -> StrV(e.data)
                          [] OTHER -> StrV(e.msg)]))

\* r = await self._func(**kw), under the try
Invoke(h, b, beh) ==
    IF ~BindsTo(h.func, b.kw)
    THEN Raise([b EXCEPT !.called = TRUE], "TypeError")
    ELSE LET inv == [b EXCEPT !.called = TRUE, !.invoked = TRUE, !.did = beh]
         IN  CASE beh.does = "return" -> Return(inv, beh.r)
               [] beh.does = "APIError" -> OnAPIError(inv, beh.e)
               [] OTHER -> Raise(inv, "Exception")

\* RequestHandler.__call__(request), the controller behaving as `beh`
Call(h, req, beh) ==
    LET parsed == ParseArgs(h, req)
    IN  IF parsed.out # "go" THEN parsed
        ELSE LET checked == CheckRequired(h, InjectRequest(h, Merge(h, req, parsed)))
             IN  IF checked.out # "go" THEN checked
                 ELSE Invoke(h, checked, beh)

\* ------------------------------------------------- what controllers do

\* the application errors of custom_errors.py, as (error, data, msg)
APIErrors ==
    { [error |-> <<"value: invalid">>, data |-> <<"email">>, msg |-> <<"bad email">>],
      [error |-> <<"permission: forbidden">>, data |-> <<"permission">>, msg |-> <<>>] }

Dicts ==
    { <<>>,
      [k \in {"a"} |-> IntV(1)],
      [k \in {"__template__", "a"} |-> IF k = "a" THEN IntV(1) ELSE StrV(<<"blog.html">>)],
      [k \in {"__template__", "a"} |-> IF k = "a" THEN IntV(1) ELSE NoneVal] }

\* first elements tried in two-element results
Firsts == { IntV(n) : n \in {99, 100, 404, 599, 600} } \cup { StrV(<<"404">>), BoolV(TRUE) }

\* the values a controller may return
Results ==
    { StreamV(Response(200, "text/html", Utf8(<<"page">>))),
      BytesV(<<"raw">>),
      StrV(<<"redirect:", "/login">>),
      StrV(<<"hello">>),
      NoneVal,
      BoolV(TRUE),
      TupleV(<<IntV(404), StrV(<<"not found">>), IntV(1)>>),
      TupleV(<<IntV(404), IntV(7)>>) }
    \cup { DictV(m) : m \in Dicts }
    \cup { IntV(n) : n \in {99, 100, 404, 599, 600} }
    \cup { TupleV(<<t, StrV(<<"not found">>)>>) : t \in Firsts }
    \cup { ListV(<<t, StrV(<<"not found">>)>>) : t \in {IntV(404), IntV(600)} }

\* a controller returns a value, raises an APIError, or raises something else
Behaviours ==
    { [does |-> "return", r |-> r] : r \in Results }
    \cup { [does |-> "APIError", e |-> e] : e \in APIErrors }
    \cup { [does |-> "raise"] }

\* ------------------------------------------- response_factory.response

\* InStatusRange with the upper end included
InStatusRange_Closed(n) == 100 <= n /\ n <= 600

\* 100 <= t < 600
InStatusRange(n) == 100 <= n /\ n < 600

\* CoerceDict deciding on the presence of the key instead of its value
CoerceDict_ByKey(r) ==
    IF "__template__" \notin DOMAIN r.map
    THEN Response(200, "application/json;charset=utf-8", Utf8(JsonDumps(r.map)))
    ELSE Response(200, "text/html;charset=utf-8", Utf8(Render(r.map["__template__"], r.map)))

\* the dict branch: template is None -> JSON, otherwise the rendered template
CoerceDict(r) ==
    LET template == DictGet(r.map, "__template__")
    IN  IF template = NoneVal
        THEN Response(200, "application/json;charset=utf-8", Utf8(JsonDumps(r.map)))
        ELSE Response(200, "text/html;charset=utf-8", Utf8(Render(template, r.map)))

\* isinstance(r, tuple) and len(r) == 2
IsPair(r) == r.type = "tuple" /\ Len(r.items) = 2

\* the final fallthrough: str(r) as text/plain
CoerceOther(r) == Response(200, "text/plain;charset=utf-8", Utf8(Str(r)))

\* the ladder applied to the value r the handler returned
Coerce(r) ==
    CASE r.type = "StreamResponse" -> r.resp
      [] r.type = "bytes" -> Response(200, "application/octet-stream", BytesBody(r.val))
      [] r.type = "str" ->
            IF StartsWith(r.val, <<"redirect:">>)
            THEN HTTPFound(SubSeq(r.val, 2, Len(r.val)))
            ELSE Response(200, "text/html;charset=utf-8", Utf8(r.val))
      [] r.type = "dict" -> CoerceDict(r)
      [] OTHER ->
            IF IsInt(r) /\ InStatusRange(IntOf(r))
            THEN Response(IntOf(r), "application/octet-stream", NoBody)
            ELSE IF IsPair(r) /\ IsInt(r.items[1]) /\ InStatusRange(IntOf(r.items[1]))
                 THEN Response(IntOf(r.items[1]), "text/plain", Utf8(Str(r.items[2])))
                 ELSE CoerceOther(r)

\* an exception left the middleware: no response of this layer
NoResponse == [status |-> 0, content_type |-> "", body |-> NoBody, location |-> <<>>]

\* ------------------------------------------------- orm: select, execute

Conns == 1..MaxConns
Ops == 1..MaxOps

\* __pool = None
NoPool == [created |-> FALSE, used |-> {}]

\* what the driver may raise from a query, a commit or a rollback: the error
\* class execute's except clause names, or any other error of the driver
Excs == {"SqlExecutionError", "DriverError"}

\* an operation not yet called.  pc: where the coroutine stands; conn: the
\* connection it holds (0: none); exc: the exception in flight ("": none);
\* failedAt: the call that raised it; acquired, released, executions: how many
\* times it acquired, released, and ran its statement; began, committed,
\* rollbackIssued, rolledBack: what happened to its transaction; leftOpen: it
\* released the connection with the transaction still open
NoOp ==
    [kind |-> "", autocommit |-> TRUE, pc |-> "new", conn |-> 0, exc |-> "",
     failedAt |-> "", acquired |-> 0, released |-> 0, executions |-> 0,
     began |-> FALSE, committed |-> FALSE, rollbackIssued |-> FALSE,
     rolledBack |-> FALSE, leftOpen |-> FALSE]

\* an exception raised inside the `async with __pool.acquire()` block at call
\* `at`: the block is left, its __aexit__ releases the connection
Fails(op, exc, at) == [op EXCEPT !.pc = "release", !.exc = exc, !.failedAt = at]

\* create_pool
create_pool ==
    /\ ~pool.created
    /\ pool' = [pool EXCEPT !.created = TRUE]
    /\ UNCHANGED <<conns, ops>>
    /\ UNCHANGED nondbvars

\* a call enters select or execute: `if __pool is not None`, else raise
Enter(o, kind, autocommit) ==
    /\ ops[o].pc = "new"
    /\ ops' = [ops EXCEPT ![o] =
          IF pool.created
          THEN [@ EXCEPT !.kind = kind, !.autocommit = autocommit, !.pc = "acquire"]
          ELSE [@ EXCEPT !.kind = kind, !.autocommit = autocommit, !.pc = "raised",
                         !.exc = "PoolNotFoundError", !.failedAt = "pool"]]
    /\ UNCHANGED <<pool, conns>>
    /\ UNCHANGED nondbvars

\* select(sql, args, size) is called
select(o) == Enter(o, "select", TRUE)

\* execute(sql, args, autocommit) is called
execute(o) == \E autocommit \in BOOLEAN : Enter(o, "execute", autocommit)

\* async with __pool.acquire() as conn: waits for a free connection
Acquire(o) ==
    /\ ops[o].pc = "acquire"
    /\ \E c \in Conns \ pool.used :
          /\ pool' = [pool EXCEPT !.used = @ \cup {c}]
          /\ ops' = [ops EXCEPT ![o] =
                [@ EXCEPT !.conn = c, !.acquired = @ + 1,
                          !.pc = IF ops[o].kind = "execute" /\ ~ops[o].autocommit
                                 THEN "begin" ELSE "execute"]]
    /\ UNCHANGED conns
    /\ UNCHANGED nondbvars

\* if not autocommit: await conn.begin()     (outside the try)
Begin(o) ==
    /\ ops[o].pc = "begin"
    /\ \/ /\ conns' = [conns EXCEPT ![ops[o].conn] = "in-transaction"]
          /\ ops' = [ops EXCEPT ![o] = [@ EXCEPT !.began = TRUE, !.pc = "execute"]]
       \/ /\ \E exc \in Excs : ops' = [ops EXCEPT ![o] = Fails(@, exc, "begin")]
          /\ UNCHANGED conns
    /\ UNCHANGED pool
    /\ UNCHANGED nondbvars

\* execute's except clause: `except custom_errors.SqlExecutionError`
Caught(exc) == exc = "SqlExecutionError"

\* an exception raised inside execute's try at call `at`: the except clause
\* rolls back (not autocommit) and re-raises what it catches
FailsInTry(op, exc, at) ==
    IF Caught(exc) /\ ~op.autocommit
    THEN [op EXCEPT !.pc = "rollback", !.exc = exc, !.failedAt = at]
    ELSE Fails(op, exc, at)

\* async with conn.cursor(...) as cur: await cur.execute(sql.replace('?', '%s'), args)
CursorExecute(o) ==
    /\ ops[o].pc = "execute"
    /\ \/ ops' = [ops EXCEPT ![o] =
             [@ EXCEPT !.executions = @ + 1,
                       !.pc = CASE ops[o].kind = "select" -> "fetch"
                                [] ~ops[o].autocommit -> "commit"
                                [] OTHER -> "release"]]
       \/ \E exc \in Excs :
             ops' = [ops EXCEPT ![o] =
                 LET ran == [@ EXCEPT !.executions = @ + 1]
                 IN  IF ran.kind = "select"
                     THEN Fails(ran, exc, "execute")
                     ELSE FailsInTry(ran, exc, "execute")]
    /\ UNCHANGED <<pool, conns>>
    /\ UNCHANGED nondbvars

\* select: rows = await cur.fetchmany(size) / cur.fetchall()
Fetch(o) ==
    /\ ops[o].pc = "fetch"
    /\ \/ ops' = [ops EXCEPT ![o] = [@ EXCEPT !.pc = "release"]]
       \/ \E exc \in Excs : ops' = [ops EXCEPT ![o] = Fails(@, exc, "fetch")]
    /\ UNCHANGED <<pool, conns>>
    /\ UNCHANGED nondbvars

\* if not autocommit: await conn.commit()     (inside the try)
Commit(o) ==
    /\ ops[o].pc = "commit"
    /\ \/ /\ conns' = [conns EXCEPT ![ops[o].conn] = "idle"]
          /\ ops' = [ops EXCEPT ![o] = [@ EXCEPT !.committed = TRUE, !.pc = "release"]]
       \/ /\ \E exc \in Excs : ops' = [ops EXCEPT ![o] = FailsInTry(@, exc, "commit")]
          /\ UNCHANGED conns
    /\ UNCHANGED pool
    /\ UNCHANGED nondbvars

\* in the except clause: await conn.rollback(), then raise
Rollback(o) ==
    /\ ops[o].pc = "rollback"
    /\ \/ /\ conns' = [conns EXCEPT ![ops[o].conn] = "idle"]
          /\ ops' = [ops EXCEPT ![o] =
                [@ EXCEPT !.rollbackIssued = TRUE, !.rolledBack = TRUE, !.pc = "release"]]
       \/ /\ \E exc \in Excs :
                ops' = [ops EXCEPT ![o] =
                    [@ EXCEPT !.rollbackIssued = TRUE, !.pc = "release", !.exc = exc,
                              !.failedAt = "rollback"]]
          /\ UNCHANGED conns
    /\ UNCHANGED pool
    /\ UNCHANGED nondbvars

\* Release without the scoped block: an exception in flight skips the release
Release_OnlyOnSuccess(o) ==
    /\ ops[o].pc = "release"
    /\ IF ops[o].exc = ""
       THEN /\ pool' = [pool EXCEPT !.used = @ \ {ops[o].conn}]
            /\ conns' = [conns EXCEPT ![ops[o].conn] = "idle"]
            /\ ops' = [ops EXCEPT ![o] =
                  [@ EXCEPT !.conn = 0, !.released = @ + 1, !.pc = "returned"]]
       ELSE /\ ops' = [ops EXCEPT ![o] = [@ EXCEPT !.pc = "raised"]]
            /\ UNCHANGED <<pool, conns>>
    /\ UNCHANGED nondbvars

\* leaving the `async with __pool.acquire()` block releases the connection,
\* then the call returns its value or the exception in flight propagates
Release(o) ==
    /\ ops[o].pc = "release"
    /\ pool' = [pool EXCEPT !.used = @ \ {ops[o].conn}]
    /\ conns' = [conns EXCEPT ![ops[o].conn] = "idle"]
    /\ ops' = [ops EXCEPT ![o] =
          [@ EXCEPT !.conn = 0, !.released = @ + 1,
                    !.leftOpen = (conns[ops[o].conn] = "in-transaction"),
                    !.pc = IF ops[o].exc = "" THEN "returned" ELSE "raised"]]
    /\ UNCHANGED nondbvars

\* ------------------------------------------- orm.py: the entity metaclass

\* the attribute names a class body may bind, and the names classes are given
AttrNames == {"id", "name", "save"}
ClassNames == {"Model", "User"}

\* a Field instance bound to attribute k (StringField, IntField and FloatField
\* take primary_key; BooleanField and TextField always pass False)
Field(k, primary_key) == [k |-> k, field |-> TRUE, primary_key |-> primary_key]

\* any other attribute of a class body (a method, a constant)
Other(k) == [k |-> k, field |-> FALSE, primary_key |-> FALSE]

\* the class bodies: attrs.items() in definition order, each name bound once
ClassBodies ==
    LET Bindings == {Field(k, b) : k \in AttrNames, b \in BOOLEAN}
                        \cup {Other(k) : k \in AttrNames}
    IN  {attrs \in UNION {[1..n -> Bindings] : n \in 0..MaxAttrs} :
            \A i, j \in DOMAIN attrs : i # j => attrs[i].k # attrs[j].k}

\* `primary_key = None`
NoPrimaryKey == "None"

\* the locals of __new__ before the loop over attrs.items()
Scan0 == [mappings |-> <<>>, primary_key |-> NoPrimaryKey, fields |-> <<>>,
          error |-> ""]

\* one turn of `for k, v in attrs.items()`; a raise ends the loop
ScanAttr_LastKeyWins(st, a) ==
    IF ~a.field THEN st
    ELSE IF a.primary_key
    THEN [st EXCEPT !.mappings = Append(@, a.k), !.primary_key = a.k]
    ELSE [st EXCEPT !.mappings = Append(@, a.k), !.fields = Append(@, a.k)]

ScanAttr(st, a) ==
    IF st.error # "" \/ ~a.field THEN st
    ELSE IF a.primary_key
    THEN IF st.primary_key # NoPrimaryKey
         THEN [st EXCEPT !.mappings = Append(@, a.k),
                         !.error = "DuplicatePrimaryKeyError"]
         ELSE [st EXCEPT !.mappings = Append(@, a.k), !.primary_key = a.k]
    ELSE [st EXCEPT !.mappings = Append(@, a.k), !.fields = Append(@, a.k)]

RECURSIVE ScanAttrs(_, _)
ScanAttrs(attrs, st) ==
    IF attrs = <<>> THEN st
    ELSE ScanAttrs(Tail(attrs), ScanAttr(st, Head(attrs)))

\* what a class statement leaves behind: the class object, or the exception
\* that left __new__ before type.__new__ was reached
PlainClass(name, bases, attrs) ==
    [name |-> name, bases |-> bases, given |-> attrs, created |-> TRUE, error |-> "",
     entity |-> FALSE, attrs |-> {attrs[i].k : i \in DOMAIN attrs},
     table |-> "", mappings |-> <<>>, primary_key |-> NoPrimaryKey,
     fields |-> <<>>]

NoClassBecause(name, bases, attrs, error) ==
    [PlainClass(name, bases, attrs) EXCEPT !.created = FALSE, !.error = error,
                                    !.attrs = {}]

\* ModelMetaClass.__new__(mcs, name, bases, attrs); the modelled bodies bind
\* no __table__, so `attrs.get('__table__', None) or name` is name
ModelMetaClass(name, bases, attrs) ==
    IF name = "Model" THEN PlainClass(name, bases, attrs)
    ELSE LET st == ScanAttrs(attrs, Scan0)
         IN  IF st.error # "" THEN NoClassBecause(name, bases, attrs, st.error)
             ELSE IF st.primary_key = NoPrimaryKey
             THEN NoClassBecause(name, bases, attrs,
                                 "PrimaryKeyNotFoundError")
             ELSE [PlainClass(name, bases, attrs) EXCEPT
                      !.entity = TRUE,
                      !.attrs = (@ \ {st.mappings[i] : i \in DOMAIN st.mappings})
                                   \cup {"__mappings__", "__table__",
                                         "__primary_key__", "__fields__",
                                         "__select__", "__insert__",
                                         "__update__", "__delete__"},
                      !.table = name,
                      !.mappings = st.mappings,
                      !.primary_key = st.primary_key,
                      !.fields = st.fields]

\* `class Model(dict, metaclass=ModelMetaClass)`: the base, whose body binds
\* methods only
Model == ModelMetaClass("Model", "dict", <<Other("save")>>)

\* a class statement `class <name>(Model): <attrs>` is run
DefineClass ==
    /\ \E name \in ClassNames, attrs \in ClassBodies :
          klass' = ModelMetaClass(name, "Model", attrs)
    /\ UNCHANGED nonormvars

\* ---------------------------------------- async_web.py: route registration

\* `getattr(func, '__method__', None)` of a function no decorator touched
NoAttr == "None"

\* the names dir(mod) lists, in its (sorted) order; a name is a token sequence
Dir == << <<"_", "helper">>, <<"api">>, <<"blog">>, <<"index">> >>

\* inspect.signature of the function bound to each name (functools.wraps makes
\* the decorated wrapper report the signature of the function it wraps)
ParamsOf(name) ==
    CASE name = <<"_", "helper">> -> <<>>                          \* _helper()
      [] name = <<"api">> -> <<Pos("request"), Pos("id")>>         \* api(request, id)
      [] name = <<"blog">> -> <<Pos("request"), KwOnly("id", FALSE)>> \* blog(request, *, id)
      [] name = <<"index">> -> <<Pos("request")>>                  \* index(request)

\* what @get(path) / @post(path) leave on a function, or nothing at all
Decorations ==
    [method : {"GET", "POST"}, route : {"/a", "/b"}]
        \cup {[method |-> NoAttr, route |-> NoAttr]}

\* a function as add_route sees it
Function(name, deco) ==
    [name |-> name, method |-> deco.method, route |-> deco.route,
     params |-> ParamsOf(name)]

Functions == {Function(Dir[i], d) : i \in DOMAIN Dir, d \in Decorations}

\* the modules add_routes may import: some names of Dir, each decorated or not
Modules ==
    UNION {[S -> Decorations] : S \in {T \in SUBSET Range(Dir) : Cardinality(T) <= 2}}

\* no add_route call was made yet
NoReg ==
    [called |-> FALSE, func |-> Function(<<"index">>, [method |-> NoAttr, route |-> NoAttr]),
     error |-> "", levels |-> {}, duplicate |-> FALSE, previous |-> ""]

\* the routes of the table, as <<resource, route>> index pairs
Entries(table) ==
    {<<i, j>> \in (DOMAIN table) \X (1..MaxRoutes + 1) : j \in DOMAIN table[i].routes}

\* the entries registered for a (method, path) pair
EntriesFor(table, method, path) ==
    {e \in Entries(table) :
        table[e[1]].path = path /\ table[e[1]].routes[e[2]].method = method}

\* app.router.resolve: the resources are tried in the order they were added;
\* the first whose path matches and that has a route for the method serves the
\* request (here by the name of the function its RequestHandler wraps)
Resolve(table, method, path) ==
    LET hits == EntriesFor(table, method, path)
    IN  IF hits = {}
        THEN IF \E i \in DOMAIN table : table[i].path = path
             THEN "405" ELSE "404"
        ELSE LET i == CHOOSE k \in {e[1] : e \in hits} :
                          \A e \in hits : k <= e[1]
                 j == CHOOSE k \in {e[2] : e \in {f \in hits : f[1] = i}} :
                          \A e \in {f \in hits : f[1] = i} : k <= e[2]
             IN  table[i].routes[j].name

\* app.router.add_route(method, path, handler) of aiohttp's UrlDispatcher:
\* add_resource(path) hands back the resource added last when it has this
\* path and appends a new one otherwise; Resource.add_route raises
\* RuntimeError when the resource already has a route for the method
UrlAddRoute_Replaces(table, method, path, name, h) ==
    LET route == [method |-> method, name |-> name, handler |-> h]
        kept == SelectSeq(table, LAMBDA res : res.path # path)
        old == SelectSeq(table, LAMBDA res : res.path = path)
        others == IF old = <<>> THEN <<>>
                  ELSE SelectSeq(old[1].routes, LAMBDA r : r.method # method)
    IN  [table |-> Append(kept, [path |-> path, routes |-> Append(others, route)]),
         error |-> ""]

UrlAddRoute(table, method, path, name, h) ==
    LET route == [method |-> method, name |-> name, handler |-> h]
        n == Len(table)
    IN  IF n > 0 /\ table[n].path = path
        THEN IF \E j \in DOMAIN table[n].routes : table[n].routes[j].method = method
             THEN [table |-> table, error |-> "RuntimeError"]
             ELSE [table |-> [table EXCEPT ![n].routes = Append(@, route)],
                   error |-> ""]
        ELSE [table |-> Append(table, [path |-> path, routes |-> <<route>>]),
              error |-> ""]

\* add_route(app, func) run on the table st.router: the outcome of the call is
\* recorded in reg (what it logged, the exception that left it, and whether,
\* and to which function, the pair was routed before the call)
AddRoute(st, func) ==
    LET r0 == [called |-> TRUE, func |-> func, error |-> "", levels |-> {},
               duplicate |-> EntriesFor(st.router, func.method, func.route) # {},
               previous |-> Resolve(st.router, func.method, func.route)]
    IN  IF func.route = NoAttr \/ func.method = NoAttr
        THEN [router |-> st.router,
              reg |-> [r0 EXCEPT !.error = "ValueError: @get or @post not defined"]]
        ELSE IF has_request_arg_raises(func.params)
        THEN [router |-> st.router,
              reg |-> [r0 EXCEPT !.levels = {"info"},
                          !.error = "ValueError: request parameter must be the last named parameter"]]
        ELSE LET u == UrlAddRoute(st.router, func.method, func.route, func.name,
                                  RequestHandler(func.params))
             IN  [router |-> u.table,
                  reg |-> [r0 EXCEPT !.levels = {"info"}, !.error = u.error]]

\* the loop of add_routes from dir(mod)[i] on; an exception leaves the loop
RECURSIVE ScanModule(_, _, _)
ScanModule(st, mod, i) ==
    IF i > Len(Dir) THEN st
    ELSE IF \/ Dir[i] \notin DOMAIN mod
            \/ StartsWith(Dir[i], <<"_">>)
            \/ mod[Dir[i]].method = NoAttr
            \/ mod[Dir[i]].route = NoAttr
    THEN ScanModule(st, mod, i + 1)
    ELSE LET nx == AddRoute(st, Function(Dir[i], mod[Dir[i]]))
         IN  IF nx.reg.error # "" THEN nx ELSE ScanModule(nx, mod, i + 1)

\* add_route(app, func)
add_route ==
    /\ Cardinality(Entries(router)) < MaxRoutes
    /\ \E func \in Functions :
          LET st == AddRoute([router |-> router, reg |-> reg], func)
          IN  router' = st.router /\ reg' = st.reg
    /\ UNCHANGED nonroutevars

\* add_routes(app, module_name)
add_routes ==
    /\ \E mod \in Modules :
          /\ Cardinality(Entries(router)) + Cardinality(DOMAIN mod) <= MaxRoutes
          /\ LET st == ScanModule([router |-> router, reg |-> reg], mod, 1)
             IN  router' = st.router /\ reg' = st.reg
    /\ UNCHANGED nonroutevars

\* ------------------------------------------------------------ pymonitor.py

\* the child processes, by the order subprocess.Popen creates them
Children == 1..MaxChildren

\* the main thread (start_watch) and the observer thread of watchdog, which
\* dispatches the queued events one at a time to on_any_event
Threads == {"main", "observer"}

\* a thread at statement at, holding the Popen object `new` (0: none)
At(at, new) == [at |-> at, new |-> new]

\* observer.start() was called and observer.stop() was not
Watching == thr["main"].at \in {"start_process", "assign", "sleep"}

\* observer.start(), after Observer() and observer.schedule(...)
ObserverStart ==
    /\ thr["main"].at = "start_watch"
    /\ thr' = [thr EXCEPT !["main"] = At("start_process", 0)]
    /\ UNCHANGED <<process, children, queue>>
    /\ UNCHANGED nonmonvars

\* the watched directory changes: an event on a .py path, or on another path
FileEvent ==
    /\ Watching
    /\ Len(queue) < MaxQueue
    /\ \E py \in BOOLEAN : queue' = Append(queue, py)
    /\ UNCHANGED <<process, children, thr>>
    /\ UNCHANGED nonmonvars

\* on_any_event(event): `if event.src_path.endswith('.py')`, self.restart()
on_any_event ==
    /\ Watching
    /\ thr["observer"].at = "idle"
    /\ queue # <<>>
    /\ queue' = Tail(queue)
    /\ thr' = [thr EXCEPT !["observer"] =
                  At(IF Head(queue) THEN "kill_process" ELSE "idle", 0)]
    /\ UNCHANGED <<process, children>>
    /\ UNCHANGED nonmonvars

\* kill_process: `if process is not None`
KillCheck ==
    /\ thr["observer"].at = "kill_process"
    /\ thr' = [thr EXCEPT !["observer"] =
                  At(IF process # 0 THEN "kill" ELSE "start_process", 0)]
    /\ UNCHANGED <<process, children, queue>>
    /\ UNCHANGED nonmonvars

\* kill_process: process.kill()
Kill ==
    /\ thr["observer"].at = "kill"
    /\ children' = [children EXCEPT ![process] =
                       IF @ = "running" THEN "dead" ELSE @]
    /\ thr' = [thr EXCEPT !["observer"] = At("wait", 0)]
    /\ UNCHANGED <<process, queue>>
    /\ UNCHANGED nonmonvars

\* kill_process: process.wait() returns once the child has terminated
Wait ==
    /\ thr["observer"].at = "wait"
    /\ children[process] # "running"
    /\ children' = [children EXCEPT ![process] = "waited"]
    /\ thr' = [thr EXCEPT !["observer"] = At("clear", 0)]
    /\ UNCHANGED <<process, queue>>
    /\ UNCHANGED nonmonvars

\* kill_process: process = None; restart_process goes on to start_process
Clear ==
    /\ thr["observer"].at = "clear"
    /\ process' = 0
    /\ thr' = [thr EXCEPT !["observer"] = At("start_process", 0)]
    /\ UNCHANGED <<children, queue>>
    /\ UNCHANGED nonmonvars

\* start_process: subprocess.Popen(command, ...) starts a child
Popen(t) ==
    /\ thr[t].at = "start_process"
    /\ \E c \in Children :
          /\ children[c] = "unborn"
          /\ \A d \in Children : d < c => children[d] # "unborn"
          /\ children' = [children EXCEPT ![c] = "running"]
          /\ thr' = [thr EXCEPT ![t] = At("assign", c)]
    /\ UNCHANGED <<process, queue>>
    /\ UNCHANGED nonmonvars

\* start_process: the Popen object is stored in the global `process`
Assign(t) ==
    /\ thr[t].at = "assign"
    /\ process' = thr[t].new
    /\ thr' = [thr EXCEPT ![t] = At(IF t = "main" THEN "sleep" ELSE "idle", 0)]
    /\ UNCHANGED <<children, queue>>
    /\ UNCHANGED nonmonvars

\* a child terminates by itself (the default command is `echo ok`)
ChildExits(c) ==
    /\ children[c] = "running"
    /\ children' = [children EXCEPT ![c] = "dead"]
    /\ UNCHANGED <<process, thr, queue>>
    /\ UNCHANGED nonmonvars

\* KeyboardInterrupt in the sleep loop: observer.stop()
Interrupt ==
    /\ thr["main"].at = "sleep"
    /\ thr' = [thr EXCEPT !["main"] = At("join", 0)]
    /\ UNCHANGED <<process, children, queue>>
    /\ UNCHANGED nonmonvars

\* observer.join() returns once the observer thread has left its callback
Join ==
    /\ thr["main"].at = "join"
    /\ thr["observer"].at = "idle"
    /\ thr' = [thr EXCEPT !["main"] = At("exit", 0)]
    /\ UNCHANGED <<process, children, queue>>
    /\ UNCHANGED nonmonvars

\* ---------------------------------------------------- the specifications

InitOrm ==
    /\ handler = RequestHandler(<<>>)
    /\ request = NoRequest
    /\ pc = "idle"
    /\ call = Binder0
    /\ resp = NoResponse
    /\ pool = NoPool
    /\ conns = [c \in Conns |-> "idle"]
    /\ ops = [o \in Ops |-> NoOp]
    /\ klass = Model
    /\ router = <<>>
    /\ reg = NoReg
    /\ process = 0
    /\ children = [c \in Children |-> "unborn"]
    /\ thr = [t \in Threads |-> At(IF t = "main" THEN "start_watch" ELSE "idle", 0)]
    /\ queue = <<>>

NextOrm == DefineClass

SpecOrm == InitOrm /\ [][NextOrm]_vars

InitRoutes ==
    /\ handler = RequestHandler(<<>>)
    /\ request = NoRequest
    /\ pc = "idle"
    /\ call = Binder0
    /\ resp = NoResponse
    /\ pool = NoPool
    /\ conns = [c \in Conns |-> "idle"]
    /\ ops = [o \in Ops |-> NoOp]
    /\ klass = Model
    /\ router = <<>>
    /\ reg = NoReg
    /\ process = 0
    /\ children = [c \in Children |-> "unborn"]
    /\ thr = [t \in Threads |-> At(IF t = "main" THEN "start_watch" ELSE "idle", 0)]
    /\ queue = <<>>

NextRoutes == add_route \/ add_routes

SpecRoutes == InitRoutes /\ [][NextRoutes]_vars

InitMonitor ==
    /\ handler = RequestHandler(<<>>)
    /\ request = NoRequest
    /\ pc = "idle"
    /\ call = Binder0
    /\ resp = NoResponse
    /\ pool = NoPool
    /\ conns = [c \in Conns |-> "idle"]
    /\ ops = [o \in Ops |-> NoOp]
    /\ klass = Model
    /\ router = <<>>
    /\ reg = NoReg
    /\ process = 0
    /\ children = [c \in Children |-> "unborn"]
    /\ thr = [t \in Threads |-> At(IF t = "main" THEN "start_watch" ELSE "idle", 0)]
    /\ queue = <<>>

NextMonitor ==
    \/ ObserverStart
    \/ FileEvent
    \/ on_any_event
    \/ KillCheck
    \/ Kill
    \/ Wait
    \/ Clear
    \/ \E t \in Threads : Popen(t)
    \/ \E t \in Threads : Assign(t)
    \/ \E c \in Children : ChildExits(c)
    \/ Interrupt
    \/ Join

SpecMonitor == InitMonitor /\ [][NextMonitor]_vars

InitDb ==
    /\ handler = RequestHandler(<<>>)
    /\ request = NoRequest
    /\ pc = "idle"
    /\ call = Binder0
    /\ resp = NoResponse
    /\ pool = NoPool
    /\ conns = [c \in Conns |-> "idle"]
    /\ ops = [o \in Ops |-> NoOp]
    /\ klass = Model
    /\ router = <<>>
    /\ reg = NoReg
    /\ process = 0
    /\ children = [c \in Children |-> "unborn"]
    /\ thr = [t \in Threads |-> At(IF t = "main" THEN "start_watch" ELSE "idle", 0)]
    /\ queue = <<>>

NextDb ==
    \/ create_pool
    \/ \E o \in Ops :
          \/ select(o)
          \/ execute(o)
          \/ Acquire(o)
          \/ Begin(o)
          \/ CursorExecute(o)
          \/ Fetch(o)
          \/ Commit(o)
          \/ Rollback(o)
          \/ Release(o)

SpecDb == InitDb /\ [][NextDb]_vars

\* ----------------------------------------------------------- the system

Init ==
    /\ handler \in Handlers
    /\ request = NoRequest
    /\ pc = "idle"
    /\ call = Binder0
    /\ resp = NoResponse
    /\ pool = NoPool
    /\ conns = [c \in Conns |-> "idle"]
    /\ ops = [o \in Ops |-> NoOp]
    /\ klass = Model
    /\ router = <<>>
    /\ reg = NoReg
    /\ process = 0
    /\ children = [c \in Children |-> "unborn"]
    /\ thr = [t \in Threads |-> At(IF t = "main" THEN "start_watch" ELSE "idle", 0)]
    /\ queue = <<>>

\* a request is routed to the handler
Receive ==
    /\ pc = "idle"
    /\ request' \in Requests
    /\ pc' = "received"
    /\ UNCHANGED <<handler, call, resp>>
    /\ UNCHANGED nonwebvars

\* response_factory.response(request): r = await handler(request), then the ladder
Respond ==
    /\ pc = "received"
    /\ \E beh \in Behaviours :
          LET c == Call(handler, request, beh)
          IN  /\ call' = c
              /\ resp' = IF c.out = "return" THEN Coerce(c.r) ELSE NoResponse
    /\ pc' = "done"
    /\ UNCHANGED <<handler, request>>
    /\ UNCHANGED nonwebvars

\* the response has been sent; the server waits for the next request
Finish ==
    /\ pc = "done"
    /\ pc' = "idle"
    /\ request' = NoRequest
    /\ call' = Binder0
    /\ resp' = NoResponse
    /\ UNCHANGED handler
    /\ UNCHANGED nonwebvars

Next == Receive \/ Respond \/ Finish

Spec == Init /\ [][Next]_vars

\* ================================================================ claims

Done == pc = "done"

\* the keys present both in the path parameters and in the parsed body/query
Colliding == DOMAIN request.match_info \cap DOMAIN call.parsed

\* C1 (as stated): for every key present both in the matched path parameters
\* and in the parsed body/query mapping, the value passed to the handler under
\* that key is the path parameter's value.
C1_PathAlwaysWins ==
    (Done /\ call.called) =>
        \A k \in Colliding : call.kw[k] = request.match_info[k]

\* C1 (amended): the path parameter's value is passed under every colliding
\* key, except under 'request' when the handler accepts the raw request: that
\* key then carries the request object.
C1_PathWinsExceptRequest ==
    (Done /\ call.called) =>
        \A k \in Colliding :
            IF k = "request" /\ handler.has_request_arg
            THEN call.kw[k] = RequestObject
            ELSE call.kw[k] = request.match_info[k]

\* C1 witness: a controller ran on a request whose body or query collided with
\* a path parameter other than 'request'
C1_Witness ==
    /\ Done /\ call.invoked
    /\ "id" \in Colliding
    /\ call.parsed["id"] # request.match_info["id"]

\* C2: a handler with no keyword-only parameter and no **kw never has the body
\* or the query string read, is never refused by the binder, and is called
\* with exactly the path parameters (plus 'request' when it accepts it).
C2_NoParsingWithoutNamedArgs ==
    (Done /\ ~handler.has_named_kwargs /\ ~handler.has_var_kwarg) =>
        /\ ~call.bodyRead /\ ~call.queryRead
        /\ call.called
        /\ DOMAIN call.kw = DOMAIN request.match_info
                \cup (IF handler.has_request_arg THEN {"request"} ELSE {})
        /\ \A k \in DOMAIN call.kw :
              call.kw[k] = IF k = "request" /\ handler.has_request_arg
                           THEN RequestObject ELSE request.match_info[k]

\* C2 witness: such a handler ran on a POST with an unsupported Content-Type
\* and a non-empty body
C2_Witness ==
    /\ Done /\ call.invoked
    /\ ~handler.has_named_kwargs /\ ~handler.has_var_kwarg
    /\ request.method = "POST"
    /\ request.content_type = <<"text/plain">>
    /\ request.body.map # <<>>
    /\ request.match_info # <<>>

\* the handler declares named parameters or a catch-all
NeedsParsed == handler.has_named_kwargs \/ handler.has_var_kwarg

HandledTypes ==
    {"application/json", "application/x-www-form-urlencoded", "multipart/form-data"}

\* the binder answered 400 and the controller was not called
Refused == resp.status = 400 /\ ~call.called /\ ~call.invoked

\* C3 (as stated): a POST to a handler that needs parsed arguments whose
\* Content-Type is missing or is not one of the three handled types is answered
\* 400 and the handler is not invoked.
C3_OtherTypesRefused ==
    (Done /\ request.method = "POST" /\ NeedsParsed
          /\ (request.content_type = <<>>
                \/ Lower(request.content_type) \notin { <<t>> : t \in HandledTypes })) =>
        Refused

\* C3 (amended): such a POST is answered 400, the handler not invoked, when the
\* Content-Type is missing or, lower-cased, does not begin with one of the
\* three handled types.
C3_UnprefixedTypesRefused ==
    (Done /\ request.method = "POST" /\ NeedsParsed
          /\ (request.content_type = <<>>
                \/ LowerTok(request.content_type[1]) \notin HandledTypes)) =>
        /\ Refused
        /\ ~call.bodyRead

\* C3 witness: a POST with Content-Type text/plain was refused
C3_Witness ==
    /\ Done /\ request.method = "POST" /\ NeedsParsed
    /\ request.content_type = <<"text/plain">>
    /\ request.body.kind = "json-object"
    /\ resp.status = 400

\* the text of the 400 answered for a missing argument
MissingArgument(name) == Utf8(<<"Missing argument: ", name>>)

Required == handler.required_kwargs

\* C4 (as stated): for every required name absent from the built mapping the
\* request is answered 400 with 'Missing argument: <name>' and the handler is
\* not invoked; the handler is invoked only with every required name present.
C4_EveryMissingNameReported ==
    /\ \A i \in 1..Len(Required) :
          (Done /\ call.built /\ Required[i] \notin DOMAIN call.kw) =>
              /\ Refused
              /\ resp.body = MissingArgument(Required[i])
    /\ (Done /\ call.called) => Range(Required) \subseteq DOMAIN call.kw

\* C4 (amended): when some required name is absent from the built mapping the
\* request is answered 400 with 'Missing argument: <name>' for the first absent
\* name in declaration order, and the handler is not invoked; the handler is
\* invoked only with every required name present.
C4_FirstMissingNameReported ==
    /\ \A i \in 1..Len(Required) :
          (/\ Done /\ call.built
           /\ Required[i] \notin DOMAIN call.kw
           /\ \A j \in 1..(i - 1) : Required[j] \in DOMAIN call.kw) =>
              /\ Refused
              /\ resp.body = MissingArgument(Required[i])
    /\ (Done /\ call.called) => Range(Required) \subseteq DOMAIN call.kw

\* C4 witness: two required names, both absent, and the first one reported
C4_Witness ==
    /\ Done /\ call.built
    /\ Len(Required) = 2
    /\ Required[1] \notin DOMAIN call.kw
    /\ Required[2] \notin DOMAIN call.kw
    /\ resp.status = 400
    /\ resp.body = MissingArgument(Required[1])

\* C5: for a handler with named parameters and no **kw, every key passed is a
\* declared named parameter, a path parameter or 'request'; other keys sent in
\* the body or query are dropped, and they cause no refusal: the call is made
\* whenever the required names are among the parsed keys, the path parameters
\* and the injected 'request'.
C5_ExtraKeysDropped ==
    (Done /\ handler.has_named_kwargs /\ ~handler.has_var_kwarg) =>
        /\ call.called =>
              DOMAIN call.kw \subseteq
                  Range(handler.named_kwargs) \cup DOMAIN request.match_info \cup {"request"}
        /\ (/\ call.built
            /\ Range(Required) \subseteq
                  DOMAIN call.parsed \cup DOMAIN request.match_info
                      \cup (IF handler.has_request_arg THEN {"request"} ELSE {}))
              => call.called

\* C5 witness: a key sent in the body or query was dropped and the call made
C5_Witness ==
    /\ Done /\ call.called
    /\ handler.has_named_kwargs /\ ~handler.has_var_kwarg
    /\ \E k \in DOMAIN call.parsed : k \notin DOMAIN call.kw

\* the handler returned r to the coercer
Returned(r) == Done /\ call.out = "return" /\ call.r = r

\* a two-element result of sequence type `types` whose first element is an integer
TwoElements(r, types) ==
    r.type \in types /\ Len(r.items) = 2 /\ r.items[1].type \in {"int", "bool"}

\* the status-code rules of the coercer for two-element results of the
\* sequence types `types`, bare integers, and their out-of-range cases
StatusRules(types) ==
    \A r \in Results :
        Returned(r) =>
            /\ (TwoElements(r, types) /\ IntOf(r.items[1]) \in 100..599) =>
                  /\ resp.status = IntOf(r.items[1])
                  /\ resp.body = Utf8(Str(r.items[2]))
            /\ (r.type = "int" /\ r.val \in 100..599) =>
                  /\ resp.status = r.val
                  /\ resp.body = NoBody
            /\ (\/ r.type = "int" /\ r.val \notin 100..599
                \/ TwoElements(r, types) /\ IntOf(r.items[1]) \notin 100..599) =>
                  /\ resp.status = 200
                  /\ resp.content_type = "text/plain;charset=utf-8"
                  /\ resp.body = Utf8(Str(r))

\* C6 (as stated): every two-element sequence with first element an integer t
\* in [100, 600) gives status t with the second element stringified as body; a
\* bare integer in the range gives a status-only response; an integer outside
\* it, or a two-element sequence starting with one, is stringified as text/plain.
C6_SequenceStatus == StatusRules({"tuple", "list"})

\* C6 (amended): the same, for two-element tuples only.
C6_TupleStatus == StatusRules({"tuple"})

\* C6 witness: (404, "not found") was answered with status 404 and that body
C6_Witness ==
    /\ Returned(TupleV(<<IntV(404), StrV(<<"not found">>)>>))
    /\ resp.status = 404
    /\ resp.body = Utf8(<<"not found">>)

IsJson == resp.content_type = "application/json;charset=utf-8"
IsHtml == resp.content_type = "text/html;charset=utf-8"

\* C7 (as stated): a returned mapping is rendered as text/html when it contains
\* the key '__template__', whatever its value, and is serialized as
\* application/json if and only if it does not contain that key.
C7_TemplateKeyDecides ==
    \A r \in Results :
        (Returned(r) /\ r.type = "dict") =>
            /\ "__template__" \in DOMAIN r.map => IsHtml
            /\ IsJson <=> "__template__" \notin DOMAIN r.map

\* C7 (amended): a returned mapping is rendered as text/html, with the mapping
\* as context, when it contains '__template__' with a value other than None; it
\* is serialized as application/json if and only if the key is absent or None.
C7_TemplateValueDecides ==
    \A r \in Results :
        (Returned(r) /\ r.type = "dict") =>
            LET named == "__template__" \in DOMAIN r.map /\ r.map["__template__"] # NoneVal
            IN  /\ named => /\ IsHtml
                            /\ resp.body = Utf8(Render(r.map["__template__"], r.map))
                /\ ~named => /\ IsJson
                             /\ resp.body = Utf8(JsonDumps(r.map))
                /\ IsJson <=> ~named

\* C7 witness: a mapping naming a template was rendered
C7_Witness ==
    /\ Done /\ call.invoked /\ call.out = "return" /\ call.r.type = "dict"
    /\ "__template__" \in DOMAIN call.r.map
    /\ IsHtml

\* C8: an APIError raised by the controller does not leave
\* RequestHandler.__call__: it is returned as the mapping {error, data,
\* message} of the error's fields, which the coercer emits as JSON with
\* status 200.
C8_APIErrorBecomesJson ==
    (Done /\ call.invoked /\ call.did.does = "APIError") =>
        /\ call.out = "return"
        /\ call.r.type = "dict"
        /\ DOMAIN call.r.map = {"error", "data", "message"}
        /\ call.r.map["error"] = StrV(call.did.e.error)
        /\ call.r.map["data"] = StrV(call.did.e.data)
        /\ call.r.map["message"] = StrV(call.did.e.msg)
        /\ resp.status = 200
        /\ IsJson
        /\ resp.body = Utf8(JsonDumps(call.r.map))

\* C8 witness: a controller raised APIError and a JSON response went out
C8_Witness ==
    /\ Done /\ call.invoked /\ call.did.does = "APIError"
    /\ resp.status = 200

Finished(o) == ops[o].pc \in {"returned", "raised"}

C10_RollbackOnFailure ==
    \A o \in Ops :
        (/\ ops[o].kind = "execute" /\ ~ops[o].autocommit
         /\ ops[o].failedAt \in {"execute", "commit"}
         /\ Finished(o)) =>
            /\ ops[o].pc = "raised"
            /\ ops[o].rollbackIssued
            /\ ~ops[o].leftOpen
            /\ ops[o].executions = 1

\* ---------------------------------------------------------------- C11

\* the attributes of the latest class body that are fields marked primary key
KeyMarked == {klass.given[i].k : i \in {j \in DOMAIN klass.given :
                 klass.given[j].field /\ klass.given[j].primary_key}}

\* the class statement defined a subclass of Model
IsSubclass == klass.bases = "Model"

\* what C11 says of one class statement
OneKeyRule ==
    /\ Cardinality(KeyMarked) = 0 =>
          ~klass.created /\ klass.error = "PrimaryKeyNotFoundError"
    /\ Cardinality(KeyMarked) >= 2 =>
          ~klass.created /\ klass.error = "DuplicatePrimaryKeyError"
    /\ klass.created =>
          /\ KeyMarked = {klass.primary_key}
          /\ klass.primary_key \notin Range(klass.fields)

\* C11, as stated: defining a subclass of Model whose body marks no field, or
\* two or more fields, as primary key fails with PrimaryKeyNotFoundError /
\* DuplicatePrimaryKeyError and creates no class; every subclass that is
\* created has exactly one primary-key name, which is not among its fields.
C11_EverySubclassHasOneKey == IsSubclass => OneKeyRule

\* C11, amended: the same, for every subclass whose own name is not 'Model'
\* (the metaclass recognises the base by its name and skips the scan for it).
C11_SubclassNotNamedModelHasOneKey ==
    IsSubclass /\ klass.name # "Model" => OneKeyRule

\* a subclass not named 'Model' marked two or more fields and was refused
C11_Witness ==
    /\ IsSubclass
    /\ klass.name # "Model"
    /\ Cardinality(KeyMarked) >= 2
    /\ klass.error = "DuplicatePrimaryKeyError"
    /\ ~klass.created

\* ---------------------------------------------------------------- C12

\* some parameter of one of the kinds follows the parameter named 'request'
FollowsRequest(params, kinds) ==
    \E i, j \in DOMAIN params :
        i < j /\ params[i].name = "request" /\ params[j].kind \in kinds

\* the parameters that have a name and are not variadic; those among them
\* that may be passed by position
NamedKinds == {"POSITIONAL_ONLY", "POSITIONAL_OR_KEYWORD", "KEYWORD_ONLY"}
PositionalKinds == {"POSITIONAL_ONLY", "POSITIONAL_OR_KEYWORD"}

\* the signatures of the functions the route table dispatches to
Routed == {router[e[1]].routes[e[2]].handler.func : e \in Entries(router)}

\* the latest add_route call was refused with a ValueError
RegRefused ==
    reg.error \in {"ValueError: @get or @post not defined",
                   "ValueError: request parameter must be the last named parameter"}

\* C12, as stated: a function taking 'request' is registered only when no
\* non-variadic named parameter follows 'request'; add_route fails for any
\* other, so the table never dispatches to one.
C12_NothingNamedFollowsRequest ==
    /\ \A f \in Routed : ~FollowsRequest(f, NamedKinds)
    /\ reg.called /\ FollowsRequest(reg.func.params, NamedKinds) => RegRefused

\* C12, amended: the same for the parameters that may be passed by position;
\* keyword-only parameters may follow 'request'.
C12_NothingPositionalFollowsRequest ==
    /\ \A f \in Routed : ~FollowsRequest(f, PositionalKinds)
    /\ reg.called /\ FollowsRequest(reg.func.params, PositionalKinds) => RegRefused

\* a decorated api(request, id) was handed to add_route and refused
C12_Witness ==
    /\ reg.called
    /\ reg.func.method # NoAttr
    /\ FollowsRequest(reg.func.params, PositionalKinds)
    /\ reg.error = "ValueError: request parameter must be the last named parameter"
    /\ router # <<>>

\* ---------------------------------------------------------------- C13

\* the (method, path) pairs a route can be registered for
Pairs == {"GET", "POST"} \X {"/a", "/b"}

\* the latest add_route call was for a pair that already had an entry, with a
\* function whose signature RequestHandler accepts
Reregistered ==
    reg.called /\ reg.duplicate /\ ~has_request_arg_raises(reg.func.params)

Unwaited == {c \in Children : children[c] \in {"running", "dead"}}

\* the children a start_process in progress has created and is about to store
InHand == {thr[t].new : t \in Threads} \ {0}

\* C14: at any time at most one child started by the monitor is alive, and
\* every started child is the one the global `process` refers to (or the one a
\* running start_process is about to store there) or has been waited for.
C14_AtMostOneChild ==
    /\ Cardinality({c \in Children : children[c] = "running"}) <= 1
    /\ \A c \in Unwaited : c = process \/ c \in InHand

====
